---- MODULE Spec2Model ----
(***************************************************************************)
(* Model of backend/scripts/cluster_documents.py: the reconstruction of    *)
(* the cluster hierarchy from an HDBSCAN condensed tree                    *)
(* (extract_tree_structure), and the part of main() that formats, renders  *)
(* and emits the report.                                                   *)
(*                                                                         *)
(* Merge levels (lambda_val, a float) are written in tenths: 15 is 1.5.    *)
(* Python sequences are 0-based, TLA+ sequences 1-based: point p has its   *)
(* label at cluster_labels[p + 1].                                         *)
(*                                                                         *)
(* Together with pieces of the two command-line pipelines: the batched     *)
(* retrieval of chunks, aggregate_embeddings, and the chunk-first mapping  *)
(* and report of cluster_documents_by_chunks.py.  Embeddings are real      *)
(* vectors: their components are integers in the input, and the record     *)
(* [num, den, root] stands for the vector num[i] / (den * sqrt(root)), so  *)
(* that the mean and the division by the norm are exact.  A threshold is   *)
(* written in hundredths: 50 is 0.5.                                       *)
(***************************************************************************)
EXTENDS Integers, Sequences, FiniteSets, TLC

\* ---------------------------------------------------------------- bounds
\* Largest number of points (documents) of a run.
MaxPoints == 2
\* Node ids range over 0 .. MaxNodeId; those >= num_points are internal.
MaxNodeId == 3
\* Largest number of rows of the condensed tree.
MaxEdges == 3
\* child_size ranges over 1 .. MaxChildSize.
MaxChildSize == 2
\* Final cluster labels range over -1 .. MaxLabel.
MaxLabel == 1
\* Stand-in for the interpreter's recursion limit: deeper than any acyclic
\* chain the bounded edge lists can form, so only a cycle exceeds it.
RecursionLimit == 6
\* 'edges': cluster_tree[:500]
EdgeCap == 500

\* Largest number of rows of the condensed tree in a run of main().
MaxEdgesMain == 2
\* DEFAULT_MIN_SAMPLES
DEFAULT_MIN_SAMPLES == 5

\* Largest number of rows of a long condensed tree, and the number of its
\* leading rows that may attach a point.
MaxEdgesLong == 601
MaxAttachRows == 1

\* map_chunk_clusters_to_documents: the largest number of chunks and of
\* documents of a call.
MaxChunks == 4
MaxDocs == 2
\* DEFAULT_MIN_CLUSTER_SIZE
DEFAULT_MIN_CLUSTER_SIZE == 5
\* fetch_chunks_for_documents: the largest number of document ids, the
\* largest batch_size, and the largest number of objects a query returns.
MaxFetchDocs == 3
MaxBatchSize == 2
MaxObjects == 2
\* The command line: the largest --min-cluster-size, and the largest number
\* of chunks the stores hold for the user.
MaxMinClusterSize == 3
MaxCliChunks == 3
\* aggregate_embeddings: the largest dimension of the vectors, and the
\* largest absolute value of their components.
MaxDim == 2
MaxComponent == 1

\* The merge levels of the rows (tenths).
SpecLambdas == {15}

\* Largest number of rows of a condensed tree with rows of several merge
\* levels, and those levels (tenths).
MaxEdgesLevels == 2
LevelLambdas == {5, 15}

VARIABLES
    pc,                 \* position in extract_tree_structure
    num_points,         \* len(doc_ids)
    cluster_labels,     \* final label of each point
    tree_array,         \* rows of the condensed tree read so far
    all_children_map,   \* parent -> list of all children
    parent_map,         \* child -> parent (last row wins)
    lambda_map,         \* child -> highest merge level
    all_cluster_nodes,  \* node ids >= num_points seen
    cluster_tree,       \* rows with child_size > 1, in order
    result,             \* the dictionary returned
    main_pc,            \* position in main(); "none" outside a run of main()
    args,               \* the parsed command line
    report,             \* main()'s result dictionary
    temp_json,          \* the local temp_json: "none" (None) or "set"
    temp_file,          \* the temporary file on disk: "none", "exists", "deleted"
    result_code,        \* the outcome of the run of the viewer script
    fatal,              \* the fatal diagnostic written to stderr, if any
    exit_code,          \* the exit code of the process; -1 while it runs
    json_output,        \* the JSON document written to --output or stdout
    extract_calls,      \* calls of extract_tree_structure so far
    script,             \* the script run from the command line; "none" otherwise
    io_log,             \* the stores the run has tried to reach, in order
    document_ids,       \* fetch_chunks_for_documents: the ids asked for
    batch_size,         \* its batch_size
    batch_start,        \* its loop variable i
    queries,            \* the outcome of the query of each batch so far
    fetch_pc,           \* position in fetch_chunks_for_documents
    chunks,             \* the chunks fetched: (documentId, chunkIndex, vector)
    doc_embeddings,     \* what aggregate_embeddings returns
    chunks_with_metadata,   \* the documentId of each chunk
    chunk_cluster_labels,   \* the label of each chunk
    majority_threshold,     \* in hundredths: 50 is 0.5
    doc_clusters        \* what map_chunk_clusters_to_documents returns

ext_vars == <<pc, tree_array, all_children_map, parent_map, lambda_map,
              all_cluster_nodes, cluster_tree, result>>

in_vars == <<num_points, cluster_labels>>

viewer_vars == <<temp_json, temp_file, result_code>>

main_vars == <<main_pc, args, report, viewer_vars, fatal, exit_code,
               json_output>>

cli_vars == <<script, io_log>>

fetch_vars == <<document_ids, batch_size, batch_start, queries, fetch_pc>>

chunk_vars == <<chunks_with_metadata, chunk_cluster_labels,
                majority_threshold, doc_clusters>>

stage_vars == <<cli_vars, fetch_vars, chunks, doc_embeddings, chunk_vars>>

vars == <<ext_vars, in_vars, main_vars, extract_calls, stage_vars>>

\* ---------------------------------------------------------------- helpers
NodeIds == 0 .. MaxNodeId

Rows(lams) ==
    [parent : NodeIds, child : NodeIds, lambda_val : lams,
     child_size : 1 .. MaxChildSize]

LabelArrays(n) == [1 .. n -> -1 .. MaxLabel]

Min2(a, b) == IF a < b THEN a ELSE b

\* d[k] = v on a dict
Put(d, k, v) == [x \in DOMAIN d \cup {k} |-> IF x = k THEN v ELSE d[x]]

EmptyDict == <<>>

SetMin(S) == CHOOSE x \in S : \A y \in S : x <= y

\* sorted(S)
RECURSIVE Sorted(_)
Sorted(S) == IF S = {} THEN <<>>
             ELSE <<SetMin(S)>> \o Sorted(S \ {SetMin(S)})

\* set(seq)
Range(s) == {s[i] : i \in 1 .. Len(s)}

RECURSIVE Perms(_)
Perms(S) == IF S = {} THEN {<<>>}
            ELSE UNION {{<<x>> \o p : p \in Perms(S \ {x})} : x \in S}

\* ---------------------------------------------------------------- the code
\* (variant: only children that are internal nodes are kept)
ChildrenMapGetInternalOnly(id) ==
    LET sel == SelectSeq(cluster_tree,
                         LAMBDA e : e.parent = id /\ e.child >= num_points)
    IN  [i \in 1 .. Len(sel) |->
            [cluster_id |-> sel[i].child, lambda_val |-> sel[i].lambda_val,
             size |-> sel[i].child_size]]

\* (variant: the children are taken from all rows, whatever their child_size)
ChildrenMapGetAllRows(id) ==
    LET sel == SelectSeq(tree_array, LAMBDA e : e.parent = id)
    IN  [i \in 1 .. Len(sel) |->
            [cluster_id |-> sel[i].child, lambda_val |-> sel[i].lambda_val,
             size |-> sel[i].child_size]]

\* children_map.get(cluster_id, []): the children of a node among the
\* rows with child_size > 1
ChildrenMapGet(id) ==
    LET sel == SelectSeq(cluster_tree, LAMBDA e : e.parent = id)
    IN  [i \in 1 .. Len(sel) |->
            [cluster_id |-> sel[i].child, lambda_val |-> sel[i].lambda_val,
             size |-> sel[i].child_size]]

\* (variant: the comparison admits num_points itself)
IsPointInclusive(cluster_id) == cluster_id <= num_points

\* if cluster_id < num_points: a leaf, the point itself
IsPoint(cluster_id) == cluster_id < num_points

\* (variant: only the points directly under the node are collected)
CollectDirectPoints(cluster_id, depth) ==
    [err |-> FALSE,
     points |-> IF IsPoint(cluster_id) THEN {cluster_id}
                ELSE {k \in Range(all_children_map[cluster_id]) : IsPoint(k)}]

\* collect_points, with the recursion depth of the call; err is a
\* RecursionError
RECURSIVE collect_points(_, _)
RECURSIVE CollectOver(_, _)
collect_points(cluster_id, depth) ==
    IF depth > RecursionLimit THEN [err |-> TRUE, points |-> {}]
    ELSE IF IsPoint(cluster_id)
         THEN [err |-> FALSE, points |-> {cluster_id}]
         ELSE CollectOver(all_children_map[cluster_id], depth + 1)

\* for child in all_children_map.get(cluster_id, []):
\*     points.update(collect_points(child))
CollectOver(kids, depth) ==
    IF \E i \in 1 .. Len(kids) : collect_points(kids[i], depth).err
    THEN [err |-> TRUE, points |-> {}]
    ELSE [err |-> FALSE,
          points |-> UNION {collect_points(kids[i], depth).points :
                               i \in 1 .. Len(kids)}]

\* (variant: noise is not ignored)
FinalClustersKeepNoise(points) ==
    {cluster_labels[p + 1] :
        p \in {q \in points : q >= 0 /\ q < Len(cluster_labels)}}

\* the final clusters of a set of points (noise ignored)
FinalClustersOf(points) ==
    {cluster_labels[p + 1] :
        p \in {q \in points : q >= 0 /\ q < Len(cluster_labels)}} \ {-1}

\* the loop that fills tree_to_final_clusters
CollectFails == \E c \in all_cluster_nodes : collect_points(c, 1).err

\* (variant: a node without final clusters is stored too)
TreeToFinalClustersKeepEmpty ==
    [c \in all_cluster_nodes |->
        Sorted(FinalClustersOf(collect_points(c, 1).points))]

\* tree_to_final_clusters: only the nodes whose set of final clusters is
\* not empty are stored
TreeToFinalClusters ==
    LET kept == {c \in all_cluster_nodes :
                    FinalClustersOf(collect_points(c, 1).points) # {}}
    IN  [c \in kept |-> Sorted(FinalClustersOf(collect_points(c, 1).points))]

\* (variant: every cluster node is a root)
RootCandidatesAllNodes == all_cluster_nodes

\* (variant: a parent that is a point does not make a root)
RootCandidatesNoParentOnly ==
    {c \in all_cluster_nodes : c \notin DOMAIN parent_map}

\* root_candidates before the fallback
RootCandidates ==
    {c \in all_cluster_nodes :
        c \notin DOMAIN parent_map \/ parent_map[c] < num_points}

LambdaGet(id, default) ==
    IF id \in DOMAIN lambda_map THEN lambda_map[id] ELSE default

\* the lists root_candidates can be: a set is iterated in an order the
\* language does not fix, and max() returns the first maximal element
RootOrders ==
    IF RootCandidates # {} THEN Perms(RootCandidates)
    ELSE IF all_cluster_nodes # {}
         THEN {<<c>> : c \in {x \in all_cluster_nodes :
                  \A y \in all_cluster_nodes :
                      LambdaGet(y, 0) <= LambdaGet(x, 0)}}
         ELSE {<<>>}

\* (variant: a node with clusters among its children keeps none)
ExclusiveWithoutChildClusters(all_final_clusters, child_final_clusters) ==
    IF child_final_clusters = {} THEN Sorted(all_final_clusters) ELSE <<>>

\* (variant: the children's clusters are not subtracted)
ExclusiveNotSubtracted(all_final_clusters, child_final_clusters) ==
    Sorted(all_final_clusters)

\* (variant: the operands of the difference are swapped)
ExclusiveSwapped(all_final_clusters, child_final_clusters) ==
    Sorted(child_final_clusters \ all_final_clusters)

\* sorted(all_final_clusters - child_final_clusters)
ExclusiveFinalClusters(all_final_clusters, child_final_clusters) ==
    Sorted(all_final_clusters \ child_final_clusters)

\* (variant: the children's exclusive clusters are collected)
ChildExclusiveClusters(child_nodes) ==
    UNION {Range(child_nodes[i].exclusive_clusters) :
              i \in 1 .. Len(child_nodes)}

\* child_final_clusters: the final clusters of the child nodes
ChildFinalClusters(child_nodes) ==
    UNION {Range(child_nodes[i].final_clusters) :
              i \in 1 .. Len(child_nodes)}

\* build_node, with the recursion depth of the call
RECURSIVE build_node(_, _, _)
RECURSIVE BuildOver(_, _, _)
build_node(cluster_id, t2f, depth) ==
    IF depth > RecursionLimit THEN [err |-> TRUE]
    ELSE
    LET kids == BuildOver(ChildrenMapGet(cluster_id), t2f, depth + 1)
    IN  IF kids.err THEN [err |-> TRUE]
        ELSE
        LET child_nodes == kids.nodes
            all_final_clusters ==
                IF cluster_id \in DOMAIN t2f THEN Range(t2f[cluster_id]) ELSE {}
            child_final_clusters == ChildFinalClusters(child_nodes)
        IN  [err |-> FALSE,
             node |-> [cluster_id |-> cluster_id,
                       lambda_val |-> LambdaGet(cluster_id, 0),
                       final_clusters |-> Sorted(all_final_clusters),
                       exclusive_clusters |->
                           ExclusiveFinalClusters(all_final_clusters,
                                                  child_final_clusters),
                       children |-> child_nodes]]

\* [build_node(child['cluster_id']) for child in children]
BuildOver(items, t2f, depth) ==
    IF \E i \in 1 .. Len(items) :
           build_node(items[i].cluster_id, t2f, depth).err
    THEN [err |-> TRUE]
    ELSE [err |-> FALSE,
          nodes |-> IF items = <<>> THEN <<>>
                    ELSE [i \in 1 .. Len(items) |->
                             build_node(items[i].cluster_id, t2f, depth).node]]

\* tree_structure = [build_node(root) for root in root_candidates]
RECURSIVE BuildRoots(_, _)
BuildRoots(roots, t2f) ==
    IF roots = <<>> THEN [err |-> FALSE, nodes |-> <<>>]
    ELSE LET first == build_node(Head(roots), t2f, 1)
         IN  IF first.err THEN [err |-> TRUE]
             ELSE LET rest == BuildRoots(Tail(roots), t2f)
                  IN  IF rest.err THEN [err |-> TRUE]
                      ELSE [err |-> FALSE,
                            nodes |-> <<first.node>> \o rest.nodes]

\* ---------------------------------------------------------------- actions
NoResult == [pending |-> TRUE]

NoArgs == [min_cluster_size |-> 0, min_samples |-> 0, include_tree |-> FALSE,
           tree_viewer |-> FALSE]

\* the tree viewer step has not begun
ViewerIdle ==
    /\ temp_json = "none"
    /\ temp_file = "none"
    /\ result_code = "none"

\* no script runs and none of the functions of the pipeline is called
CliIdle == script = "none" /\ io_log = <<>>

FetchIdle ==
    /\ document_ids = <<>>
    /\ batch_size = 0
    /\ batch_start = 0
    /\ queries = <<>>
    /\ fetch_pc = "idle"

ChunkMappingIdle ==
    /\ chunks_with_metadata = <<>>
    /\ chunk_cluster_labels = <<>>
    /\ majority_threshold = 0
    /\ doc_clusters = <<>>

StagesIdle ==
    /\ CliIdle
    /\ FetchIdle
    /\ chunks = <<>>
    /\ doc_embeddings = <<>>
    /\ ChunkMappingIdle

\* the locals of extract_tree_structure at its entry
ExtractEntry(p) ==
    /\ p = "loop"
    /\ tree_array = <<>>
    /\ all_children_map = [n \in NodeIds |-> <<>>]
    /\ parent_map = EmptyDict
    /\ lambda_map = EmptyDict
    /\ all_cluster_nodes = {}
    /\ cluster_tree = <<>>
    /\ result = NoResult

\* a call of extract_tree_structure on any point count and label array
Init ==
    /\ ExtractEntry(pc)
    /\ num_points \in 1 .. MaxPoints
    /\ cluster_labels \in LabelArrays(num_points)
    /\ main_pc = "none"
    /\ args = NoArgs
    /\ report = NoResult
    /\ ViewerIdle
    /\ fatal = "none"
    /\ exit_code = -1
    /\ json_output = NoResult
    /\ extract_calls = 1
    /\ StagesIdle

\* the bound on the rows of the call at hand
RowLimit == IF main_pc = "none" THEN MaxEdges ELSE MaxEdgesMain

\* (variant: the comparison admits child_size 1)
IsClusterEdgeInclusive(row) == row.child_size >= 1

\* if child_size > 1: the row is a cluster-tree edge
IsClusterEdge(row) == row.child_size > 1

\* (variant: the level of the last row is kept)
NewLevelAlways(row) == TRUE

\* if child not in lambda_map or lambda_val > lambda_map[child]
NewLevel(row) ==
    \/ row.child \notin DOMAIN lambda_map
    \/ row.lambda_val > lambda_map[row.child]

\* one iteration of "for row in tree_array"
ReadRow(row) ==
    /\ pc = "loop"
    /\ tree_array' = Append(tree_array, row)
    /\ all_children_map' =
           [all_children_map EXCEPT ![row.parent] = Append(@, row.child)]
    /\ parent_map' = Put(parent_map, row.child, row.parent)
    /\ lambda_map' =
           IF NewLevel(row)
           THEN Put(lambda_map, row.child, row.lambda_val)
           ELSE lambda_map
    /\ all_cluster_nodes' =
           all_cluster_nodes
           \cup (IF row.parent >= num_points THEN {row.parent} ELSE {})
           \cup (IF row.child >= num_points THEN {row.child} ELSE {})
    /\ cluster_tree' =
           IF IsClusterEdge(row) THEN Append(cluster_tree, row)
           ELSE cluster_tree
    /\ UNCHANGED <<pc, result, in_vars, main_vars, extract_calls, stage_vars>>

\* the next row of a condensed tree of at most RowLimit rows
ProcessRow(row) ==
    /\ Len(tree_array) < RowLimit
    /\ ReadRow(row)

\* if not cluster_tree: return {'tree': [], 'edges': [], 'cluster_mapping': {}}
ReturnEmpty ==
    /\ pc = "loop"
    /\ cluster_tree = <<>>
    /\ result' = [tree |-> <<>>, edges |-> <<>>, cluster_mapping |-> EmptyDict]
    /\ pc' = "returned"
    /\ UNCHANGED <<tree_array, all_children_map, parent_map, lambda_map,
                   all_cluster_nodes, cluster_tree, in_vars, main_vars,
                   extract_calls, stage_vars>>

\* (variant: the list is not cut)
FirstEdgesUncut(edges) == edges

\* cluster_tree[:500]
FirstEdges(edges) == SubSeq(edges, 1, Min2(EdgeCap, Len(edges)))

\* the rest of the try block, when nothing raises
ReturnTree(root_candidates) ==
    /\ pc = "loop"
    /\ cluster_tree # <<>>
    /\ ~CollectFails
    /\ LET built == BuildRoots(root_candidates, TreeToFinalClusters)
       IN  /\ ~built.err
           /\ result' = [tree |-> built.nodes,
                         edges |-> FirstEdges(cluster_tree),
                         total_edges |-> Len(cluster_tree),
                         cluster_mapping |-> TreeToFinalClusters,
                         note |-> "note"]
    /\ pc' = "returned"
    /\ UNCHANGED <<tree_array, all_children_map, parent_map, lambda_map,
                   all_cluster_nodes, cluster_tree, in_vars, main_vars,
                   extract_calls, stage_vars>>

\* the try block raises: a recursion does not end
Raises ==
    \/ CollectFails
    \/ /\ ~CollectFails
       /\ \E roots \in RootOrders : BuildRoots(roots, TreeToFinalClusters).err

\* (variant: no handler; the exception leaves the function and, in a run of
\* main(), reaches main()'s own handler)
ReturnErrorPropagates ==
    /\ pc = "loop"
    /\ cluster_tree # <<>>
    /\ Raises
    /\ pc' = "raised"
    /\ IF main_pc = "none"
       THEN UNCHANGED <<main_pc, fatal, exit_code>>
       ELSE /\ main_pc' = "exited"
            /\ fatal' = "Error: RecursionError"
            /\ exit_code' = 1
    /\ UNCHANGED <<tree_array, all_children_map, parent_map, lambda_map,
                   all_cluster_nodes, cluster_tree, result, in_vars, args,
                   report, viewer_vars, json_output, extract_calls, stage_vars>>

\* (variant: the handler's dictionary has no cluster_mapping)
ReturnErrorNoMapping ==
    /\ pc = "loop"
    /\ cluster_tree # <<>>
    /\ Raises
    /\ result' = [tree |-> <<>>, error |-> "RecursionError"]
    /\ pc' = "returned"
    /\ UNCHANGED <<tree_array, all_children_map, parent_map, lambda_map,
                   all_cluster_nodes, cluster_tree, in_vars, main_vars,
                   extract_calls, stage_vars>>

\* except Exception as e: return {'tree': [], 'error': str(e), 'cluster_mapping': {}}
ReturnError ==
    /\ pc = "loop"
    /\ cluster_tree # <<>>
    /\ Raises
    /\ result' = [tree |-> <<>>, error |-> "RecursionError",
                  cluster_mapping |-> EmptyDict]
    /\ pc' = "returned"
    /\ UNCHANGED <<tree_array, all_children_map, parent_map, lambda_map,
                   all_cluster_nodes, cluster_tree, in_vars, main_vars,
                   extract_calls, stage_vars>>

Next ==
    \/ \E row \in Rows(SpecLambdas) : ProcessRow(row)
    \/ ReturnEmpty
    \/ \E roots \in RootOrders : ReturnTree(roots)
    \/ ReturnError

Spec == Init /\ [][Next]_vars

\* a call of extract_tree_structure on two points that both have label 0
InitTwoZeros ==
    /\ Init
    /\ num_points = 2
    /\ cluster_labels = <<0, 0>>

SpecTwoZeros == InitTwoZeros /\ [][Next]_vars

\* a call of extract_tree_structure on one point, labelled 0, and a long
\* condensed tree
InitLong ==
    /\ Init
    /\ num_points = 1
    /\ cluster_labels = <<0>>

\* the rows a long condensed tree can have at position i: a merge of node 2
\* into node 1 at level i or, among the first MaxAttachRows rows, the
\* attachment of point 0 to node 1
LongRows(i) ==
    {[parent |-> 1, child |-> 2, lambda_val |-> i, child_size |-> 2]}
    \cup (IF i <= MaxAttachRows
          THEN {[parent |-> 1, child |-> 0, lambda_val |-> i, child_size |-> 1]}
          ELSE {})

\* the next row of a long condensed tree
ProcessLongRow(row) ==
    /\ Len(tree_array) < MaxEdgesLong
    /\ ReadRow(row)

\* the rows of a long condensed tree form no cycle: nothing raises
NextLong ==
    \/ \E row \in LongRows(Len(tree_array) + 1) : ProcessLongRow(row)
    \/ ReturnEmpty
    \/ \E roots \in RootOrders : ReturnTree(roots)

SpecLong == InitLong /\ [][NextLong]_vars

\* the next row of a condensed tree whose rows have several merge levels
ProcessLevelRow(row) ==
    /\ Len(tree_array) < MaxEdgesLevels
    /\ ReadRow(row)

NextLevels ==
    \/ \E row \in Rows(LevelLambdas) : ProcessLevelRow(row)
    \/ ReturnEmpty
    \/ \E roots \in RootOrders : ReturnTree(roots)
    \/ ReturnError

\* a call of extract_tree_structure on rows of several merge levels
SpecLevels == Init /\ [][NextLevels]_vars

\* ---------------------------------------------------------------- main()
\* (variant: the documents with that label or a greater one)
DocsWithLabelOrMore(l) ==
    SelectSeq([i \in 1 .. num_points |-> i - 1],
              LAMBDA d : cluster_labels[d + 1] >= l)

\* the documents (by index) with a given label, in order
DocsWithLabel(l) ==
    SelectSeq([i \in 1 .. num_points |-> i - 1],
              LAMBDA d : cluster_labels[d + 1] = l)

\* format_results up to "Add tree structure if requested"; a cluster id
\* stands for its decimal string
BaseReport ==
    LET labels == Range(cluster_labels) \ {-1}
    IN  [totalDocuments |-> num_points,
         totalClusters |-> Cardinality(labels),
         noiseCount |-> Len(DocsWithLabel(-1)),
         clusters |-> [l \in labels |->
                          [documentIds |-> DocsWithLabel(l),
                           size |-> Len(DocsWithLabel(l))]],
         noise |-> [documentIds |-> DocsWithLabel(-1),
                    count |-> Len(DocsWithLabel(-1))],
         parameters |-> [min_cluster_size |-> args.min_cluster_size,
                         min_samples |-> args.min_samples]]

\* d[k] = v on a dictionary with string keys
PutField(d, k, v) == [x \in DOMAIN d \cup {k} |-> IF x = k THEN v ELSE d[x]]

\* extract_tree_structure(clusterer, doc_ids, cluster_labels) is entered
CallExtract ==
    /\ pc' = "loop"
    /\ tree_array' = <<>>
    /\ all_children_map' = [n \in NodeIds |-> <<>>]
    /\ parent_map' = EmptyDict
    /\ lambda_map' = EmptyDict
    /\ all_cluster_nodes' = {}
    /\ cluster_tree' = <<>>
    /\ result' = NoResult
    /\ extract_calls' = extract_calls + 1

\* main() after perform_clustering: at least min_cluster_size >= 2 documents
InitMain ==
    /\ pc = "idle"
    /\ tree_array = <<>>
    /\ all_children_map = [n \in NodeIds |-> <<>>]
    /\ parent_map = EmptyDict
    /\ lambda_map = EmptyDict
    /\ all_cluster_nodes = {}
    /\ cluster_tree = <<>>
    /\ result = NoResult
    /\ num_points \in 2 .. MaxPoints
    /\ cluster_labels \in LabelArrays(num_points)
    /\ main_pc = "format_results"
    /\ args \in [min_cluster_size : 2 .. num_points,
                  min_samples : {DEFAULT_MIN_SAMPLES},
                  include_tree : BOOLEAN, tree_viewer : BOOLEAN]
    /\ report = NoResult
    /\ ViewerIdle
    /\ fatal = "none"
    /\ exit_code = -1
    /\ json_output = NoResult
    /\ extract_calls = 0
    /\ StagesIdle

\* format_results: the groups, then the call for the tree if requested
FormatResults ==
    /\ main_pc = "format_results"
    /\ report' = BaseReport
    /\ IF args.include_tree
       THEN /\ CallExtract
            /\ main_pc' = "format_results_tree"
       ELSE /\ main_pc' = "step6"
            /\ UNCHANGED <<ext_vars, extract_calls>>
    /\ UNCHANGED <<in_vars, args, viewer_vars, fatal, exit_code, json_output,
                   stage_vars>>

\* (variant: the dictionary of the tree takes the place of the report)
FormatResultsTreeReplaces ==
    /\ main_pc = "format_results_tree"
    /\ pc = "returned"
    /\ report' = result
    /\ main_pc' = "step6"
    /\ UNCHANGED <<ext_vars, in_vars, args, viewer_vars, fatal, exit_code,
                   json_output, extract_calls, stage_vars>>

\* result['tree'] = extract_tree_structure(...); return result
FormatResultsTree ==
    /\ main_pc = "format_results_tree"
    /\ pc = "returned"
    /\ report' = PutField(report, "tree", result)
    /\ main_pc' = "step6"
    /\ UNCHANGED <<ext_vars, in_vars, args, viewer_vars, fatal, exit_code,
                   json_output, extract_calls, stage_vars>>

\* (variant: the viewer step extracts the tree whatever --include-tree is)
ViewerExtractsTreeAlways == args.tree_viewer

\* if args.tree_viewer: if not args.include_tree: ...
ViewerExtractsTree == args.tree_viewer /\ ~args.include_tree

\* result['userId'] = args.user_id; if args.tree_viewer: ...
Step6 ==
    /\ main_pc = "step6"
    /\ report' = PutField(report, "userId", "user")
    /\ IF ViewerExtractsTree
       THEN /\ CallExtract
            /\ main_pc' = "viewer_tree"
       ELSE /\ main_pc' = IF args.tree_viewer THEN "temp_file" ELSE "output"
            /\ UNCHANGED <<ext_vars, extract_calls>>
    /\ UNCHANGED <<in_vars, args, viewer_vars, fatal, exit_code, json_output,
                   stage_vars>>

\* result['tree'] = extract_tree_structure(...) in main()
ViewerTree ==
    /\ main_pc = "viewer_tree"
    /\ pc = "returned"
    /\ report' = PutField(report, "tree", result)
    /\ main_pc' = "temp_file"
    /\ UNCHANGED <<ext_vars, in_vars, args, viewer_vars, fatal, exit_code,
                   json_output, extract_calls, stage_vars>>

\* with tempfile.NamedTemporaryFile(..., delete=False) as f:
\*     json.dump(result, f); temp_json = f.name
CreateTempFile ==
    /\ main_pc = "temp_file"
    /\ temp_file' = "exists"
    /\ temp_json' = "set"
    /\ main_pc' = "viewer_script"
    /\ UNCHANGED <<ext_vars, in_vars, args, report, result_code, fatal,
                   exit_code, json_output, extract_calls, stage_vars>>

\* the with block raises, in NamedTemporaryFile before the file is created
\* or in json.dump after it: temp_json is still None;
\* except Exception ... sys.exit(1)
CreateTempFileRaises(created) ==
    /\ main_pc = "temp_file"
    /\ temp_file' = IF created THEN "exists" ELSE temp_file
    /\ fatal' = "Failed to create tree viewer"
    /\ main_pc' = "finally"
    /\ UNCHANGED <<ext_vars, in_vars, args, report, temp_json, result_code,
                   exit_code, json_output, extract_calls, stage_vars>>

\* if not os.path.exists(viewer_script): sys.exit(1)
CheckViewerScript(exists) ==
    /\ main_pc = "viewer_script"
    /\ IF exists
       THEN main_pc' = "viewer_run" /\ UNCHANGED fatal
       ELSE main_pc' = "finally" /\ fatal' = "Tree viewer script not found"
    /\ UNCHANGED <<ext_vars, in_vars, args, report, viewer_vars, exit_code,
                   json_output, extract_calls, stage_vars>>

\* subprocess.run of the viewer script: return code 0, another return
\* code, or an exception
RunViewer(outcome) ==
    /\ main_pc = "viewer_run"
    /\ main_pc' = "finally"
    /\ result_code' = outcome
    /\ fatal' = IF outcome = "ok" THEN fatal ELSE "Failed to create tree viewer"
    /\ UNCHANGED <<ext_vars, in_vars, args, report, temp_json, temp_file,
                   exit_code, json_output, extract_calls, stage_vars>>

\* if temp_json and os.path.exists(temp_json)
TempFileKnown == temp_json = "set" /\ temp_file = "exists"

\* finally: os.unlink(temp_json) if temp_json is set, a failure of the
\* removal being ignored; a pending SystemExit then ends the process
Finally(removed) ==
    /\ main_pc = "finally"
    /\ temp_file' = IF TempFileKnown /\ removed THEN "deleted" ELSE temp_file
    /\ IF fatal = "none"
       THEN main_pc' = "output" /\ UNCHANGED exit_code
       ELSE main_pc' = "exited" /\ exit_code' = 1
    /\ UNCHANGED <<ext_vars, in_vars, args, report, temp_json, result_code,
                   fatal, json_output, extract_calls, stage_vars>>

\* print_statistics, json.dumps and the write of the report; the process
\* then ends normally
Output ==
    /\ main_pc = "output"
    /\ json_output' = report
    /\ exit_code' = 0
    /\ main_pc' = "exited"
    /\ UNCHANGED <<ext_vars, in_vars, args, report, viewer_vars, fatal,
                   extract_calls, stage_vars>>

\* writing --output raises: except Exception ... sys.exit(1)
OutputRaises ==
    /\ main_pc = "output"
    /\ fatal' = "Error: write"
    /\ exit_code' = 1
    /\ main_pc' = "exited"
    /\ UNCHANGED <<ext_vars, in_vars, args, report, viewer_vars, json_output,
                   extract_calls, stage_vars>>

NextMain ==
    \/ FormatResults
    \/ \E row \in Rows(SpecLambdas) : ProcessRow(row)
    \/ ReturnEmpty
    \/ \E roots \in RootOrders : ReturnTree(roots)
    \/ ReturnError
    \/ FormatResultsTree
    \/ Step6
    \/ ViewerTree
    \/ CreateTempFile
    \/ \E created \in BOOLEAN : CreateTempFileRaises(created)
    \/ \E exists \in BOOLEAN : CheckViewerScript(exists)
    \/ \E outcome \in {"ok", "code", "raise"} : RunViewer(outcome)
    \/ \E removed \in BOOLEAN : Finally(removed)
    \/ Output
    \/ OutputRaises

SpecMain == InitMain /\ [][NextMain]_vars

\* ------------------------------------------- cluster_documents_by_chunks.py
\* the labels of the chunks and the thresholds (hundredths) of a call of
\* map_chunk_clusters_to_documents
ChunkLabels == {-1, 2, 5, 7}

Thresholds == {34, 50, 67, 100}

\* the distinct values of a sequence in the order of their first appearance:
\* the keys of a dict filled while the sequence is read
KeysInOrder(s) ==
    LET idx == SelectSeq([i \in 1 .. Len(s) |-> i],
                         LAMBDA i : \A j \in 1 .. i - 1 : s[j] # s[i])
    IN  [k \in 1 .. Len(idx) |-> s[idx[k]]]

\* doc_chunks[doc_id]: the labels of the chunks of a document, in order
DocChunkLabels(cwm, labels, doc_id) ==
    LET idx == SelectSeq([i \in 1 .. Len(cwm) |-> i],
                         LAMBDA i : cwm[i] = doc_id)
    IN  [k \in 1 .. Len(idx) |-> labels[idx[k]]]

\* cluster_counts.items(): (label, number of chunks) in the order the
\* labels appear
ClusterCounts(chunk_clusters) ==
    LET keys == KeysInOrder(chunk_clusters)
    IN  [k \in 1 .. Len(keys) |->
            [cluster_id |-> keys[k],
             count |-> Cardinality({i \in 1 .. Len(chunk_clusters) :
                                       chunk_clusters[i] = keys[k]})]]

\* (variant: the last item of maximal count)
MaxByCountLast(items) ==
    items[CHOOSE i \in 1 .. Len(items) :
              /\ \A j \in 1 .. Len(items) : items[j].count <= items[i].count
              /\ \A j \in i + 1 .. Len(items) : items[j].count < items[i].count]

\* max(items, key=lambda x: x[1]): the first item of maximal count
MaxByCount(items) ==
    items[CHOOSE i \in 1 .. Len(items) :
              /\ \A j \in 1 .. Len(items) : items[j].count <= items[i].count
              /\ \A j \in 1 .. i - 1 : items[j].count < items[i].count]

\* (variant: the threshold has to be exceeded)
MeetsThresholdStrictly(primary_count, total_chunks, threshold) ==
    primary_count * 100 > threshold * total_chunks

\* primary_ratio >= majority_threshold, with
\* primary_ratio = primary_count / total_chunks and the threshold in
\* hundredths
MeetsThreshold(primary_count, total_chunks, threshold) ==
    primary_count * 100 >= threshold * total_chunks

\* the entry of one document in doc_clusters
DocCluster(doc_id, chunk_clusters, threshold) ==
    LET total_chunks == Len(chunk_clusters)
        cluster_counts == ClusterCounts(chunk_clusters)
        primary_cluster == MaxByCount(cluster_counts)
    IN  [doc_id |-> doc_id,
         cluster_id |->
             IF MeetsThreshold(primary_cluster.count, total_chunks, threshold)
             THEN primary_cluster.cluster_id
             ELSE -1,
         chunk_count |-> total_chunks,
         chunk_cluster_distribution |-> cluster_counts,
         primary_cluster |-> primary_cluster.cluster_id,
         primary_cluster_ratio |->
             [num |-> primary_cluster.count, den |-> total_chunks]]

\* map_chunk_clusters_to_documents: the entries of doc_clusters in the order
\* of the dict, which is the order the documents appear in
MapChunkClustersToDocuments(cwm, labels, threshold) ==
    LET docs == KeysInOrder(cwm)
    IN  [k \in 1 .. Len(docs) |->
            DocCluster(docs[k], DocChunkLabels(cwm, labels, docs[k]),
                       threshold)]

\* (variant: every document without a cluster counts as noise)
IsNoiseAlways(doc_info) == TRUE

\* if doc_info['primary_cluster'] == -1: noise, else multi-cluster
IsNoise(doc_info) == doc_info.primary_cluster = -1

\* [doc['documentId'] for doc in ...]
DocumentIdsOf(infos) == [k \in 1 .. Len(infos) |-> infos[k].doc_id]

\* (variant: the documents without a cluster make a group of their own too)
ClusterKeysWithNoise(dc) == {dc[k].cluster_id : k \in 1 .. Len(dc)}

\* the keys of clusters: the cluster_id of the documents that have one
ClusterKeys(dc) == {dc[k].cluster_id : k \in 1 .. Len(dc)} \ {-1}

\* format_results of the chunk-first script; a cluster id stands for its
\* decimal string
ChunkFormatResults(dc, min_cluster_size, min_samples, threshold) ==
    LET noise == SelectSeq(dc, LAMBDA d : d.cluster_id = -1 /\ IsNoise(d))
        multi_cluster ==
            SelectSeq(dc, LAMBDA d : d.cluster_id = -1 /\ ~IsNoise(d))
        ids == ClusterKeys(dc)
        members(c) == SelectSeq(dc, LAMBDA d : d.cluster_id = c)
    IN  [totalDocuments |-> Len(dc),
         totalClusters |-> Cardinality(ids),
         noiseCount |-> Len(noise),
         multiClusterCount |-> Len(multi_cluster),
         clusters |-> [c \in ids |->
                          [documentIds |-> DocumentIdsOf(members(c)),
                           size |-> Len(members(c))]],
         noise |-> [documentIds |-> DocumentIdsOf(noise),
                    count |-> Len(noise)],
         multiCluster |-> [documentIds |-> DocumentIdsOf(multi_cluster),
                           count |-> Len(multi_cluster)],
         parameters |-> [min_cluster_size |-> min_cluster_size,
                         min_samples |-> min_samples,
                         majority_threshold |-> threshold]]

\* the other variables while a function of the pipeline is checked alone
ExtractIdle ==
    /\ pc = "idle"
    /\ tree_array = <<>>
    /\ all_children_map = [n \in NodeIds |-> <<>>]
    /\ parent_map = EmptyDict
    /\ lambda_map = EmptyDict
    /\ all_cluster_nodes = {}
    /\ cluster_tree = <<>>
    /\ result = NoResult
    /\ num_points = 0
    /\ cluster_labels = <<>>
    /\ extract_calls = 0

MainIdle ==
    /\ main_pc = "none"
    /\ args = NoArgs
    /\ report = NoResult
    /\ ViewerIdle
    /\ fatal = "none"
    /\ exit_code = -1
    /\ json_output = NoResult

\* a call of map_chunk_clusters_to_documents on the chunks of at most
\* MaxDocs documents, followed by format_results
InitAssign ==
    /\ ExtractIdle
    /\ MainIdle
    /\ CliIdle
    /\ FetchIdle
    /\ chunks = <<>>
    /\ doc_embeddings = <<>>
    /\ \E n \in 1 .. MaxChunks :
           /\ chunks_with_metadata \in [1 .. n -> 1 .. MaxDocs]
           /\ chunk_cluster_labels \in [1 .. n -> ChunkLabels]
    /\ majority_threshold \in Thresholds
    /\ doc_clusters = <<>>

\* doc_clusters = {}, then one entry for each document
MapChunks ==
    /\ doc_clusters = <<>>
    /\ doc_clusters' = MapChunkClustersToDocuments(chunks_with_metadata,
                                                   chunk_cluster_labels,
                                                   majority_threshold)
    /\ UNCHANGED <<ext_vars, in_vars, main_vars, extract_calls, cli_vars,
                   fetch_vars, chunks, doc_embeddings, chunks_with_metadata,
                   chunk_cluster_labels, majority_threshold>>

\* format_results(doc_clusters, ...)
FormatChunkResults ==
    /\ doc_clusters # <<>>
    /\ report = NoResult
    /\ report' = ChunkFormatResults(doc_clusters, DEFAULT_MIN_CLUSTER_SIZE,
                                    DEFAULT_MIN_SAMPLES, majority_threshold)
    /\ UNCHANGED <<ext_vars, in_vars, main_pc, args, viewer_vars, fatal,
                   exit_code, json_output, extract_calls, stage_vars>>

NextAssign ==
    \/ MapChunks
    \/ FormatChunkResults

SpecAssign == InitAssign /\ [][NextAssign]_vars

\* ------------------------------------------------- aggregate_embeddings
\* the vectors of a dimension
Vectors(dim) == [1 .. dim -> -MaxComponent .. MaxComponent]

\* doc_chunks[doc_id]: the vectors of the chunks of a document, in order
DocVectors(cs, doc_id) ==
    LET idx == SelectSeq([i \in 1 .. Len(cs) |-> i],
                         LAMBDA i : cs[i].documentId = doc_id)
    IN  [k \in 1 .. Len(idx) |-> cs[idx[k]].vector]

RECURSIVE SumVectors(_)
SumVectors(vectors) ==
    IF Len(vectors) = 1 THEN vectors[1]
    ELSE LET rest == SumVectors(Tail(vectors))
         IN  [i \in 1 .. Len(vectors[1]) |-> vectors[1][i] + rest[i]]

\* np.mean(vectors_array, axis=0)
MeanVector(vectors) ==
    [num |-> SumVectors(vectors), den |-> Len(vectors), root |-> 1]

RECURSIVE SumOfSquares(_)
SumOfSquares(v) ==
    IF v = <<>> THEN 0 ELSE Head(v) * Head(v) + SumOfSquares(Tail(v))

\* np.linalg.norm(mean_vector): the number sqrt(sq) / den
Norm(v) == [sq |-> SumOfSquares(v.num), den |-> v.den]

\* (variant: the test admits a norm of 0)
NormNotNegative(norm) == norm.sq >= 0

\* if norm > 0
NormPositive(norm) == norm.sq > 0

\* mean_vector / norm
DivideByNorm(v, norm) ==
    [num |-> [i \in 1 .. Len(v.num) |-> v.num[i] * norm.den],
     den |-> v.den,
     root |-> norm.sq]

\* the embedding of a document: mean pooling, then L2 normalization
Embedding(vectors) ==
    LET mean_vector == MeanVector(vectors)
        norm == Norm(mean_vector)
    IN  IF NormPositive(norm) THEN DivideByNorm(mean_vector, norm)
        ELSE mean_vector

\* aggregate_embeddings: the entries of doc_embeddings in the order of the
\* dict, which is the order the documents appear in
AggregateEmbeddingsOf(cs) ==
    LET docs == KeysInOrder([i \in 1 .. Len(cs) |-> cs[i].documentId])
    IN  [k \in 1 .. Len(docs) |->
            [doc_id |-> docs[k],
             embedding |-> Embedding(DocVectors(cs, docs[k])),
             chunk_count |-> Len(DocVectors(cs, docs[k]))]]

\* a call of aggregate_embeddings on the chunks of at most MaxDocs
\* documents; all vectors have the same dimension, as the vectors of one
\* collection have
InitAggregate ==
    /\ ExtractIdle
    /\ MainIdle
    /\ CliIdle
    /\ FetchIdle
    /\ ChunkMappingIdle
    /\ \E n \in 1 .. MaxChunks : \E dim \in 1 .. MaxDim :
           chunks \in [1 .. n -> [documentId : 1 .. MaxDocs,
                                  chunkIndex : {0},
                                  vector : Vectors(dim)]]
    /\ doc_embeddings = <<>>

\* doc_embeddings = {}, then one entry for each document
AggregateEmbeddings ==
    /\ doc_embeddings = <<>>
    /\ doc_embeddings' = AggregateEmbeddingsOf(chunks)
    /\ UNCHANGED <<ext_vars, in_vars, main_vars, extract_calls, cli_vars,
                   fetch_vars, chunks, chunk_vars>>

NextAggregate == AggregateEmbeddings

SpecAggregate == InitAggregate /\ [][NextAggregate]_vars

\* ------------------------------------------- fetch_chunks_for_documents
\* item.vector as the client returns it: None, a list, or a dict from the
\* names of the vector spaces to lists (entries in the order of the dict)
VectorNone == [kind |-> "None", entries |-> <<>>]

VectorList(v) == [kind |-> "list", entries |-> <<[name |-> "", value |-> v]>>]

VectorDict(entries) == [kind |-> "dict", entries |-> entries]

ItemVectors ==
    {VectorNone,
     VectorList(<<1>>),
     VectorDict(<<>>),
     VectorDict(<<[name |-> "default", value |-> <<1>>]>>),
     VectorDict(<<[name |-> "other", value |-> <<2>>]>>)}

\* the objects a query for a batch of document ids can return
QueryObjects(batch_doc_ids) ==
    UNION {[1 .. n -> [documentId : Range(batch_doc_ids),
                       chunkIndex : {0},
                       vector : ItemVectors]] : n \in 0 .. MaxObjects}

\* vector.get("default") or next(iter(vector.values())) raises
\* StopIteration on a dict without values
ItemRaises(item) ==
    item.vector.kind = "dict" /\ item.vector.entries = <<>>

\* if vector is None: continue
ItemSkipped(item) == item.vector.kind = "None"

\* the vector of the chunk: the list itself, or from a dict the default
\* vector if it is there and not empty, else the first value
ItemVector(item) ==
    LET default == SelectSeq(item.vector.entries,
                             LAMBDA e : e.name = "default" /\ e.value # <<>>)
    IN  IF item.vector.kind = "dict" /\ default # <<>>
        THEN default[1].value
        ELSE item.vector.entries[1].value

\* the chunks the loop over query_result.objects appends: it ends at the
\* first item that raises, and the handler goes on to the next batch
ProcessedChunks(objects) ==
    LET bad == {i \in 1 .. Len(objects) : ItemRaises(objects[i])}
        last == IF bad = {} THEN Len(objects) ELSE SetMin(bad) - 1
        kept == SelectSeq(SubSeq(objects, 1, last),
                          LAMBDA item : ~ItemSkipped(item))
    IN  [k \in 1 .. Len(kept) |->
            [documentId |-> kept[k].documentId,
             chunkIndex |-> kept[k].chunkIndex,
             vector |-> ItemVector(kept[k])]]

\* document_ids[i:i + batch_size]
BatchDocIds ==
    SubSeq(document_ids, batch_start + 1,
           Min2(batch_start + batch_size, Len(document_ids)))

\* a call of fetch_chunks_for_documents
InitFetch ==
    /\ ExtractIdle
    /\ MainIdle
    /\ CliIdle
    /\ ChunkMappingIdle
    /\ doc_embeddings = <<>>
    /\ \E n \in 0 .. MaxFetchDocs : document_ids = [i \in 1 .. n |-> i]
    /\ batch_size \in 1 .. MaxBatchSize
    /\ batch_start = 0
    /\ queries = <<>>
    /\ chunks = <<>>
    /\ fetch_pc = "entry"

\* if not document_ids: return [] ; else chunks = [] and the loop starts
FetchEntry ==
    /\ fetch_pc = "entry"
    /\ fetch_pc' = IF document_ids = <<>> THEN "returned" ELSE "loop"
    /\ UNCHANGED <<ext_vars, in_vars, main_vars, extract_calls, cli_vars,
                   document_ids, batch_size, batch_start, queries, chunks,
                   doc_embeddings, chunk_vars>>

\* an iteration of the loop over the batches whose query returns
QueryReturns(objects) ==
    /\ fetch_pc = "loop"
    /\ batch_start < Len(document_ids)
    /\ queries' = Append(queries, [raised |-> FALSE, objects |-> objects])
    /\ chunks' = chunks \o ProcessedChunks(objects)
    /\ batch_start' = batch_start + batch_size
    /\ UNCHANGED <<ext_vars, in_vars, main_vars, extract_calls, cli_vars,
                   document_ids, batch_size, fetch_pc, doc_embeddings,
                   chunk_vars>>

\* an iteration whose query raises: except Exception ... continue
QueryRaises ==
    /\ fetch_pc = "loop"
    /\ batch_start < Len(document_ids)
    /\ queries' = Append(queries, [raised |-> TRUE, objects |-> <<>>])
    /\ batch_start' = batch_start + batch_size
    /\ UNCHANGED <<ext_vars, in_vars, main_vars, extract_calls, cli_vars,
                   document_ids, batch_size, fetch_pc, chunks,
                   doc_embeddings, chunk_vars>>

\* the loop is over: return chunks
FetchReturn ==
    /\ fetch_pc = "loop"
    /\ batch_start >= Len(document_ids)
    /\ fetch_pc' = "returned"
    /\ UNCHANGED <<ext_vars, in_vars, main_vars, extract_calls, cli_vars,
                   document_ids, batch_size, batch_start, queries, chunks,
                   doc_embeddings, chunk_vars>>

NextFetch ==
    \/ FetchEntry
    \/ \E objects \in QueryObjects(BatchDocIds) : QueryReturns(objects)
    \/ QueryRaises
    \/ FetchReturn

SpecFetch == InitFetch /\ [][NextFetch]_vars

\* ------------------------------------------------ main() of both scripts
\* the command lines: cluster_documents.py has no --majority-threshold, and
\* is run here without --include-tree and --tree-viewer
CliArgs(s) ==
    IF s = "documents"
    THEN [min_cluster_size : 1 .. MaxMinClusterSize, min_samples : {0, 1},
          include_tree : {FALSE}, tree_viewer : {FALSE}]
    ELSE [min_cluster_size : 1 .. MaxMinClusterSize, min_samples : {0, 1},
          majority_threshold : {0, 50, 100, 101}]

\* the chunks the stores can hold for the user
CliChunks ==
    UNION {[1 .. n -> [documentId : 1 .. MaxDocs, chunkIndex : {0},
                       vector : {<<1>>}]] : n \in 0 .. MaxCliChunks}

\* main() of either script after parser.parse_args()
InitCli ==
    /\ ExtractIdle
    /\ FetchIdle
    /\ ChunkMappingIdle
    /\ chunks = <<>>
    /\ doc_embeddings = <<>>
    /\ script \in {"documents", "chunks"}
    /\ io_log = <<>>
    /\ main_pc = "validate"
    /\ args \in CliArgs(script)
    /\ report = NoResult
    /\ ViewerIdle
    /\ fatal = "none"
    /\ exit_code = -1
    /\ json_output = NoResult

\* (variant: the lower bound is admitted)
ThresholdValidFromZero(threshold) == 0 <= threshold /\ threshold <= 100

\* 0 < args.majority_threshold <= 1
ThresholdValid(threshold) == 0 < threshold /\ threshold <= 100

\* the first parameter check that fails, "none" if none does
ValidationError ==
    IF args.min_cluster_size < 2
    THEN "Error: min_cluster_size must be at least 2"
    ELSE IF args.min_samples < 1
    THEN "Error: min_samples must be at least 1"
    ELSE IF script = "chunks" /\ ~ThresholdValid(args.majority_threshold)
    THEN "Error: majority_threshold must be between 0 and 1"
    ELSE "none"

\* sys.exit(1) after a diagnostic
ExitWith(message) ==
    /\ fatal' = message
    /\ exit_code' = 1
    /\ main_pc' = "exited"

\* "Validate parameters"
Validate ==
    /\ main_pc = "validate"
    /\ IF ValidationError # "none"
       THEN ExitWith(ValidationError)
       ELSE main_pc' = "connect" /\ UNCHANGED <<fatal, exit_code>>
    /\ UNCHANGED <<ext_vars, in_vars, args, report, viewer_vars, json_output,
                   extract_calls, stage_vars>>

\* connect_to_weaviate: the connection is made, or sys.exit(1)
Connect(ok) ==
    /\ main_pc = "connect"
    /\ io_log' = Append(io_log, "weaviate")
    /\ IF ok THEN main_pc' = "fetch" /\ UNCHANGED <<fatal, exit_code>>
       ELSE ExitWith("Failed to connect to Weaviate")
    /\ UNCHANGED <<ext_vars, in_vars, args, report, viewer_vars, json_output,
                   extract_calls, script, fetch_vars, chunks, doc_embeddings,
                   chunk_vars>>

\* fetch_user_chunks: the document ids from SQLite, then the chunks from
\* Weaviate; a missing database, a failed query and any other exception end
\* the process
FetchUserChunks(fetched) ==
    /\ main_pc = "fetch"
    /\ chunks' = fetched
    /\ io_log' = io_log \o <<"sqlite", "weaviate">>
    /\ main_pc' = "check_chunks"
    /\ UNCHANGED <<ext_vars, in_vars, args, report, viewer_vars, fatal,
                   exit_code, json_output, extract_calls, script, fetch_vars,
                   doc_embeddings, chunk_vars>>

FetchUserChunksFails(message) ==
    /\ main_pc = "fetch"
    /\ io_log' = Append(io_log, "sqlite")
    /\ ExitWith(message)
    /\ UNCHANGED <<ext_vars, in_vars, args, report, viewer_vars, json_output,
                   extract_calls, script, fetch_vars, chunks, doc_embeddings,
                   chunk_vars>>

\* if not chunks: sys.exit(1)
CheckChunks ==
    /\ main_pc = "check_chunks"
    /\ IF chunks = <<>>
       THEN ExitWith("No chunks found")
       ELSE /\ main_pc' = IF script = "documents" THEN "aggregate"
                          ELSE "cluster"
            /\ UNCHANGED <<fatal, exit_code>>
    /\ UNCHANGED <<ext_vars, in_vars, args, report, viewer_vars, json_output,
                   extract_calls, stage_vars>>

\* (variant: no number of documents is too small)
InsufficientNever(documents, min_cluster_size) == FALSE

\* if len(doc_embeddings) < args.min_cluster_size
Insufficient(documents, min_cluster_size) == documents < min_cluster_size

\* cluster_documents.py: aggregate_embeddings, then sys.exit(1) on fewer
\* documents than min_cluster_size
AggregateStep ==
    /\ main_pc = "aggregate"
    /\ doc_embeddings' = AggregateEmbeddingsOf(chunks)
    /\ IF Insufficient(Len(doc_embeddings'), args.min_cluster_size)
       THEN ExitWith("Insufficient documents")
       ELSE main_pc' = "cluster" /\ UNCHANGED <<fatal, exit_code>>
    /\ UNCHANGED <<ext_vars, in_vars, args, report, viewer_vars, json_output,
                   extract_calls, cli_vars, fetch_vars, chunks, chunk_vars>>

\* cluster_documents.py: get_document_metadata_from_db, then
\* perform_clustering gives each document a label
PerformClustering(labels) ==
    /\ main_pc = "cluster"
    /\ script = "documents"
    /\ num_points' = Len(doc_embeddings)
    /\ cluster_labels' = labels
    /\ io_log' = Append(io_log, "sqlite")
    /\ main_pc' = "format_results"
    /\ UNCHANGED <<ext_vars, args, report, viewer_vars, fatal, exit_code,
                   json_output, extract_calls, script, fetch_vars, chunks,
                   doc_embeddings, chunk_vars>>

\* cluster_documents_by_chunks.py: perform_chunk_clustering warns about
\* fewer chunks than min_cluster_size and gives each chunk a label
PerformChunkClustering(labels) ==
    /\ main_pc = "cluster"
    /\ script = "chunks"
    /\ chunks_with_metadata' = [i \in 1 .. Len(chunks) |-> chunks[i].documentId]
    /\ chunk_cluster_labels' = labels
    /\ main_pc' = "map"
    /\ UNCHANGED <<ext_vars, in_vars, args, report, viewer_vars, fatal,
                   exit_code, json_output, extract_calls, cli_vars,
                   fetch_vars, chunks, doc_embeddings, majority_threshold,
                   doc_clusters>>

\* the clustering raises: except Exception ... sys.exit(1)
ClusteringRaises ==
    /\ main_pc = "cluster"
    /\ ExitWith("Error: clustering")
    /\ UNCHANGED <<ext_vars, in_vars, args, report, viewer_vars, json_output,
                   extract_calls, stage_vars>>

\* cluster_documents_by_chunks.py: map_chunk_clusters_to_documents, the
\* warning about fewer documents than min_cluster_size, and
\* get_document_metadata_from_db
MapStep ==
    /\ main_pc = "map"
    /\ doc_clusters' = MapChunkClustersToDocuments(chunks_with_metadata,
                                                   chunk_cluster_labels,
                                                   args.majority_threshold)
    /\ io_log' = Append(io_log, "sqlite")
    /\ main_pc' = "format_chunks"
    /\ UNCHANGED <<ext_vars, in_vars, args, report, viewer_vars, fatal,
                   exit_code, json_output, extract_calls, script, fetch_vars,
                   chunks, doc_embeddings, chunks_with_metadata,
                   chunk_cluster_labels, majority_threshold>>

\* cluster_documents_by_chunks.py: format_results and result['userId']
FormatChunksStep ==
    /\ main_pc = "format_chunks"
    /\ report' = PutField(ChunkFormatResults(doc_clusters,
                                             args.min_cluster_size,
                                             args.min_samples,
                                             args.majority_threshold),
                          "userId", "user")
    /\ main_pc' = "output"
    /\ UNCHANGED <<ext_vars, in_vars, args, viewer_vars, fatal, exit_code,
                   json_output, extract_calls, stage_vars>>

NextCli ==
    \/ Validate
    \/ \E ok \in BOOLEAN : Connect(ok)
    \/ \E fetched \in CliChunks : FetchUserChunks(fetched)
    \/ \E message \in {"Database file not found", "Error querying database",
                       "Error fetching chunks"} :
           FetchUserChunksFails(message)
    \/ CheckChunks
    \/ AggregateStep
    \/ \E labels \in LabelArrays(Len(doc_embeddings)) :
           PerformClustering(labels)
    \/ \E labels \in LabelArrays(Len(chunks)) : PerformChunkClustering(labels)
    \/ ClusteringRaises
    \/ MapStep
    \/ FormatChunksStep
    \/ FormatResults
    \/ Step6
    \/ Output
    \/ OutputRaises

SpecCli == InitCli /\ [][NextCli]_vars

\* ---------------------------------------------------------------- vocabulary
Returned == pc = "returned"

\* the try block ran to its end with at least one cluster-tree edge
Succeeded == Returned /\ "total_edges" \in DOMAIN result

RECURSIVE Subtree(_)
Subtree(nd) ==
    {nd} \cup UNION {Subtree(nd.children[i]) : i \in 1 .. Len(nd.children)}

Roots == IF "tree" \in DOMAIN result THEN Range(result.tree) ELSE {}

RootIds == {r.cluster_id : r \in Roots}

OutputNodes == UNION {Subtree(r) : r \in Roots}

ChildNodes(nd) == Range(nd.children)

ProperDescendants(nd) == UNION {Subtree(ch) : ch \in ChildNodes(nd)}

IsAscending(s) == \A i \in 1 .. Len(s) - 1 : s[i] < s[i + 1]

\* the rows of the input
Edges == Range(tree_array)

NoMergeEdge == \A e \in Edges : e.child_size <= 1

Internal(n) == n >= num_points

\* the internal nodes some row names
InternalReferenced ==
    {n \in NodeIds : Internal(n) /\ \E e \in Edges : e.parent = n \/ e.child = n}

\* Reachable Point Set of a node, from the rows: the node itself if it is a
\* point, else the points below it through rows whose parent is internal
RECURSIVE Below(_)
Below(S) ==
    LET T == S \cup {e.child : e \in {x \in Edges : x.parent \in S /\ Internal(x.parent)}}
    IN  IF T = S THEN S ELSE Below(T)

ReachablePointSet(n) == {p \in Below({n}) : ~Internal(p)}

NonNoise(points) == {cluster_labels[p + 1] : p \in points} \ {-1}

RootFinalClusters == UNION {Range(r.final_clusters) : r \in Roots}

RootCollectedPoints == UNION {collect_points(r, 1).points : r \in RootIds}

\* the parent the last row with this child names
LastParent(c) ==
    LET idx == {i \in 1 .. Len(tree_array) : tree_array[i].child = c}
    IN  tree_array[CHOOSE i \in idx : \A j \in idx : j <= i].parent

IsChild(c) == \E e \in Edges : e.child = c

\* ---------------------------------------------------------------- claims

\* C1: in every node of the returned tree, exclusive_clusters is the
\* ascending list of the labels that are in the node's final_clusters and in
\* the final_clusters of none of its direct children.
C1_ExclusiveIsDifference ==
    \A nd \in OutputNodes :
        /\ IsAscending(nd.exclusive_clusters)
        /\ Range(nd.exclusive_clusters) =
               Range(nd.final_clusters)
               \ UNION {Range(ch.final_clusters) : ch \in ChildNodes(nd)}

\* a node with children that keeps some of its clusters and loses others
C1_Witness ==
    \E nd \in OutputNodes :
        /\ nd.children # <<>>
        /\ nd.exclusive_clusters # <<>>
        /\ nd.exclusive_clusters # nd.final_clusters

\* C2: in every node of the returned tree, exclusive_clusters is a subset of
\* final_clusters, and the two are equal when the node has no children.
C2_ExclusiveSubset ==
    \A nd \in OutputNodes :
        /\ Range(nd.exclusive_clusters) \subseteq Range(nd.final_clusters)
        /\ nd.children = <<>> => nd.exclusive_clusters = nd.final_clusters

\* a childless node with final clusters, below a node that has fewer
\* exclusive than final clusters
C2_Witness ==
    \E nd \in OutputNodes :
        /\ Range(nd.exclusive_clusters) # Range(nd.final_clusters)
        /\ \E ch \in ChildNodes(nd) :
               ch.children = <<>> /\ ch.final_clusters # <<>>

\* C3 as stated, for a successful extraction with a non-empty tree: the
\* final_clusters of the roots together are exactly the non-noise labels of
\* the label array.
C3_Original ==
    (Succeeded /\ result.tree # <<>>) =>
        RootFinalClusters = Range(cluster_labels) \ {-1}

\* C3 amended: when the function has returned, the final_clusters of the
\* roots together are exactly the non-noise labels of the points in the
\* reachable point sets of the roots.
C3_RootsCoverReachableLabels ==
    Returned =>
        RootFinalClusters =
            NonNoise(UNION {ReachablePointSet(r) : r \in RootIds})

\* a tree whose roots carry a label while another label of the input is
\* carried by no root
C3_Witness ==
    /\ Succeeded
    /\ RootFinalClusters # {}
    /\ RootFinalClusters # Range(cluster_labels) \ {-1}

\* C4 as stated, for rows whose parents are all internal nodes: the points
\* collected from the roots are exactly the points that occur in at least
\* one row.
C4_Original ==
    (Returned /\ \A e \in Edges : Internal(e.parent)) =>
        RootCollectedPoints =
            {p \in 0 .. num_points - 1 :
                \E e \in Edges : e.parent = p \/ e.child = p}

\* C4 amended: after a successful extraction with a cluster-tree edge, the
\* points collected from the roots are exactly the points that are the child
\* of a row whose parent is an internal node; on every other return the tree
\* has no roots and nothing is collected.
C4_RootsCollectAttachedPoints ==
    Returned =>
        RootCollectedPoints =
            IF Succeeded
            THEN {p \in 0 .. num_points - 1 :
                     \E e \in Edges : e.child = p /\ Internal(e.parent)}
            ELSE {}

\* roots that collect points while some point occurs in no row
C4_Witness ==
    /\ Succeeded
    /\ RootCollectedPoints # {}
    /\ \E p \in 0 .. num_points - 1 :
           \A e \in Edges : e.parent # p /\ e.child # p

C6_Original ==
    (Returned /\ cluster_tree # <<>> /\ all_cluster_nodes # {}
        /\ RootCandidates = {}) =>
        /\ "tree" \in DOMAIN result
        /\ Len(result.tree) = 1
        /\ result.tree[1].cluster_id \in all_cluster_nodes
        /\ \A y \in all_cluster_nodes :
               LambdaGet(y, 0) <= LambdaGet(result.tree[1].cluster_id, 0)

\* C7: when the input has no row, or no row with child_size > 1, the
\* function returns an empty tree and an empty cluster_mapping, and the
\* result has no error field.
C7_NoMergeEdgeReturnsEmpty ==
    (Returned /\ NoMergeEdge) =>
        /\ result.tree = <<>>
        /\ DOMAIN result.cluster_mapping = {}
        /\ "error" \notin DOMAIN result

\* a return on rows that only attach points to an internal node
C7_Witness ==
    /\ Returned
    /\ NoMergeEdge
    /\ \E e \in Edges : Internal(e.parent) /\ ~Internal(e.child)

\* the input of C9: two points labelled 0, the row (N, 0, 1.5, 2) and two
\* rows that attach a point to node N with child_size 1
C9_Input ==
    /\ num_points = 2
    /\ cluster_labels = <<0, 0>>
    /\ Len(tree_array) = 3
    /\ \E i \in 1 .. 3 :
           /\ tree_array[i] = [parent |-> 2, child |-> 0, lambda_val |-> 15,
                               child_size |-> 2]
           /\ \A j \in (1 .. 3) \ {i} :
                  /\ tree_array[j].parent = 2
                  /\ tree_array[j].child_size = 1
                  /\ ~Internal(tree_array[j].child)

\* C9 as stated: on that input the tree is one root with final_clusters
\* [0], exclusive_clusters [0] and no children.
C9_Original ==
    (Returned /\ C9_Input) =>
        /\ "tree" \in DOMAIN result
        /\ Len(result.tree) = 1
        /\ result.tree[1].final_clusters = <<0>>
        /\ result.tree[1].exclusive_clusters = <<0>>
        /\ result.tree[1].children = <<>>

\* C9 amended: on that input the tree is one root, node N, with
\* final_clusters [0], exclusive_clusters [0] and one child: node 0, the
\* child of the merge row, with no final clusters, no exclusive clusters and
\* no children.
C9_OneRootWithPointChild ==
    (Returned /\ C9_Input) =>
        /\ Succeeded
        /\ Len(result.tree) = 1
        /\ result.tree[1].cluster_id = 2
        /\ result.tree[1].final_clusters = <<0>>
        /\ result.tree[1].exclusive_clusters = <<0>>
        /\ Len(result.tree[1].children) = 1
        /\ result.tree[1].children[1].cluster_id = 0
        /\ result.tree[1].children[1].final_clusters = <<>>
        /\ result.tree[1].children[1].exclusive_clusters = <<>>
        /\ result.tree[1].children[1].children = <<>>

\* the function has returned on the input of C9
C9_Witness == Returned /\ C9_Input

\* the descendants of a node reached through internal nodes only
RECURSIVE InternalSubtree(_)
InternalSubtree(nd) ==
    {nd} \cup UNION {InternalSubtree(ch) :
                        ch \in {x \in ChildNodes(nd) : Internal(x.cluster_id)}}

InternalDescendants(nd) ==
    UNION {InternalSubtree(ch) :
              ch \in {x \in ChildNodes(nd) : Internal(x.cluster_id)}}

\* C10 as stated: a label in the exclusive_clusters of a node is in the
\* exclusive_clusters of none of its proper ancestors.
C10_Original ==
    \A a \in OutputNodes : \A d \in ProperDescendants(a) :
        Range(a.exclusive_clusters) \cap Range(d.exclusive_clusters) = {}

\* C10 amended: a label in the exclusive_clusters of a node is in the
\* exclusive_clusters of none of its proper ancestors from which the node is
\* reached through internal nodes only.
C10_NoDuplicateAlongInternalChain ==
    \A a \in OutputNodes : \A d \in InternalDescendants(a) :
        Range(a.exclusive_clusters) \cap Range(d.exclusive_clusters) = {}

\* a grandchild with an exclusive cluster, reached through internal nodes
\* from an ancestor that has this cluster among its final clusters
C10_Witness ==
    \E a \in OutputNodes :
        \E c \in {x \in ChildNodes(a) : Internal(x.cluster_id)} :
            \E g \in {x \in ChildNodes(c) : Internal(x.cluster_id)} :
                /\ g.exclusive_clusters # <<>>
                /\ Range(g.exclusive_clusters) \subseteq Range(a.final_clusters)

\* the fatal diagnostics of the steps around the extraction
OtherFailures ==
    {"Failed to create tree viewer", "Tree viewer script not found",
     "Error: write"}

\* the keys of the report without the tree
ReportFields ==
    {"totalDocuments", "totalClusters", "noiseCount", "clusters", "noise",
     "parameters", "userId"}

DegradedTree ==
    [tree |-> <<>>, error |-> "RecursionError", cluster_mapping |-> EmptyDict]

\* the call of extract_tree_structure has ended on rows that make it raise
ExtractionRaised ==
    /\ pc \notin {"idle", "loop"}
    /\ cluster_tree # <<>>
    /\ Raises

\* C8: an exception in extract_tree_structure ends the call with the result
\* {tree: [], error: message, cluster_mapping: {}}; the run of main() around
\* it then exits with code 1 only for a failure of the viewer step or of the
\* write, and otherwise writes the whole report, with that tree, and exits
\* with code 0.
C8_ExtractionFailureIsContained ==
    /\ ExtractionRaised => pc = "returned" /\ result = DegradedTree
    /\ (ExtractionRaised /\ main_pc = "exited") =>
           IF fatal = "none"
           THEN /\ exit_code = 0
                /\ json_output = report
                /\ ReportFields \subseteq DOMAIN json_output
                /\ json_output.tree = DegradedTree
           ELSE exit_code = 1 /\ fatal \in OtherFailures

\* a run of main() that ended with code 0 after the extraction raised
C8_Witness ==
    /\ ExtractionRaised
    /\ main_pc = "exited"
    /\ exit_code = 0
    /\ "error" \in DOMAIN json_output.tree

OutputIds == {nd.cluster_id : nd \in OutputNodes}

\* the points that are a child only of rows with child_size 1
AttachedOnlyPoints ==
    {p \in 0 .. num_points - 1 :
        IsChild(p) /\ \A e \in Edges : e.child = p => e.child_size = 1}

\* C12: every node of the returned tree that is not a root is the child, in
\* a row with child_size > 1, of the node above it, and a point that is a
\* child only of rows with child_size 1 is no node of the returned tree.
C12_AttachmentsMakeNoNodes ==
    Returned =>
        /\ \A nd \in OutputNodes : \A ch \in ChildNodes(nd) :
               \E e \in Edges : /\ e.child = ch.cluster_id
                                /\ e.parent = nd.cluster_id
                                /\ e.child_size > 1
        /\ AttachedOnlyPoints \cap OutputIds = {}

\* a tree with a non-root node, where a point is attached with child_size 1
\* to a node of the tree
C12_Witness ==
    /\ Succeeded
    /\ \E nd \in OutputNodes : nd.children # <<>>
    /\ \E p \in AttachedOnlyPoints :
           \E e \in Edges : e.child = p /\ e.parent \in OutputIds

\* the rows with child_size > 1, in input order
MergeRows == SelectSeq(tree_array, LAMBDA e : e.child_size > 1)

\* C13: a successful extraction on rows of which E >= 1 have child_size > 1
\* reports total_edges = E and, as edges, the first min(E, 500) of these rows
\* in input order.
C13_EdgesCappedTotalExact ==
    (Succeeded /\ Len(MergeRows) >= 1) =>
        /\ result.total_edges = Len(MergeRows)
        /\ result.edges =
               SubSeq(MergeRows, 1,
                      IF Len(MergeRows) < 500 THEN Len(MergeRows) ELSE 500)

\* 600 rows with child_size > 1 after rows that attach a point: total_edges
\* is 600 and 500 edges are listed
C13_Witness ==
    /\ Succeeded
    /\ Len(MergeRows) = 600
    /\ Len(tree_array) > 600
    /\ result.total_edges = 600
    /\ Len(result.edges) = 500

\* the documents of a run of main(), by index
Documents == 0 .. num_points - 1

\* the places of a document in the noise list and in the cluster lists of
\* the report
NoisePlaces(d) ==
    {i \in 1 .. Len(report.noise.documentIds) :
        report.noise.documentIds[i] = d}

ClusterPlaces(d) ==
    {pl \in UNION {{<<l, i>> : i \in 1 .. Len(report.clusters[l].documentIds)} :
                      l \in DOMAIN report.clusters} :
        report.clusters[pl[1]].documentIds[pl[2]] = d}

\* format_results has built the report
Formatted == "totalDocuments" \in DOMAIN report

\* C19: in the report of the document-level format_results every document
\* is listed exactly once, under clusters[label] if its label is not -1 and
\* under noise otherwise; totalDocuments is the number of documents,
\* noiseCount the number of documents labelled -1, totalClusters the number
\* of distinct labels other than -1, and the size of each cluster the number
\* of documents with its label.
C19_EveryDocumentOnce ==
    Formatted =>
        /\ \A d \in Documents :
               /\ Cardinality(NoisePlaces(d)) + Cardinality(ClusterPlaces(d)) = 1
               /\ IF cluster_labels[d + 1] = -1
                  THEN NoisePlaces(d) # {}
                  ELSE \E pl \in ClusterPlaces(d) : pl[1] = cluster_labels[d + 1]
        /\ report.totalDocuments = num_points
        /\ report.noiseCount =
               Cardinality({d \in Documents : cluster_labels[d + 1] = -1})
        /\ report.noise.count = report.noiseCount
        /\ report.totalClusters = Cardinality(Range(cluster_labels) \ {-1})
        /\ DOMAIN report.clusters = Range(cluster_labels) \ {-1}
        /\ \A l \in DOMAIN report.clusters :
               report.clusters[l].size =
                   Cardinality({d \in Documents : cluster_labels[d + 1] = l})

\* a written report with one noise document and one cluster
C19_Witness ==
    /\ main_pc = "exited"
    /\ exit_code = 0
    /\ json_output = report
    /\ report.noiseCount = 1
    /\ report.totalClusters = 1

\* the documents of a call of map_chunk_clusters_to_documents
ChunkDocs == Range(chunks_with_metadata)

\* the chunks of a document, and those with a given label
ChunksOf(d) ==
    {i \in 1 .. Len(chunks_with_metadata) : chunks_with_metadata[i] = d}

ChunksWith(d, c) == {i \in ChunksOf(d) : chunk_cluster_labels[i] = c}

\* the primary label of a document: a label no other label has more chunks
\* of, and the one that appears first among such labels
IsPrimary(d, c) ==
    /\ ChunksWith(d, c) # {}
    /\ \A o \in ChunkLabels :
           Cardinality(ChunksWith(d, o)) <= Cardinality(ChunksWith(d, c))
    /\ \A o \in ChunkLabels \ {c} :
           Cardinality(ChunksWith(d, o)) = Cardinality(ChunksWith(d, c)) =>
               SetMin(ChunksWith(d, c)) < SetMin(ChunksWith(d, o))

\* the entry of a document in doc_clusters
Mapped == doc_clusters # <<>>

EntryOf(d) ==
    doc_clusters[CHOOSE k \in 1 .. Len(doc_clusters) :
                     doc_clusters[k].doc_id = d]

\* C14: map_chunk_clusters_to_documents gives every document one entry; the
\* cluster_id of the entry is c, other than -1, exactly if c is the primary
\* label of the document and the chunks with label c are at least the
\* fraction majority_threshold of its chunks; in every other case it is -1.
C14_Rule ==
    Mapped =>
        /\ {doc_clusters[k].doc_id : k \in 1 .. Len(doc_clusters)} = ChunkDocs
        /\ Len(doc_clusters) = Cardinality(ChunkDocs)
        /\ \A d \in ChunkDocs :
               /\ \A c \in ChunkLabels \ {-1} :
                      EntryOf(d).cluster_id = c <=>
                          /\ IsPrimary(d, c)
                          /\ Cardinality(ChunksWith(d, c)) * 100 >=
                                 majority_threshold * Cardinality(ChunksOf(d))
               /\ EntryOf(d).cluster_id \in ChunkLabels

\* one document, with these chunk labels, and the threshold 0.5
SoleDocument(labels) ==
    /\ chunks_with_metadata = [i \in 1 .. Len(labels) |-> 1]
    /\ chunk_cluster_labels = labels
    /\ majority_threshold = 50

\* the examples of C14: with the threshold 0.5 the chunk labels [2, 2, 5]
\* and [2, 5] give cluster 2, and [2, 5, 7] gives no cluster
C14_Examples ==
    Mapped =>
        /\ SoleDocument(<<2, 2, 5>>) => EntryOf(1).cluster_id = 2
        /\ SoleDocument(<<2, 5>>) => EntryOf(1).cluster_id = 2
        /\ SoleDocument(<<2, 5, 7>>) => EntryOf(1).cluster_id = -1

ChunkFormatted == "multiCluster" \in DOMAIN report

NoiseListed == Range(report.noise.documentIds)

MultiClusterListed == Range(report.multiCluster.documentIds)

\* C15 as stated: a document is listed under noise only if all of its chunks
\* have the label -1, and every document without a cluster that has a chunk
\* with another label is listed under multiCluster.
C15_Original ==
    ChunkFormatted =>
        \A d \in ChunkDocs :
            /\ d \in NoiseListed => ChunksWith(d, -1) = ChunksOf(d)
            /\ (EntryOf(d).cluster_id = -1 /\ ChunksWith(d, -1) # ChunksOf(d))
                   => d \in MultiClusterListed

\* C15 amended: a document is listed under noise exactly if -1 is its
\* primary label, whatever the labels of its other chunks; it is listed
\* under multiCluster exactly if it has no cluster and its primary label is
\* not -1; no document is in both lists, and a document in either list is in
\* it once.
C15_NoiseIffPrimaryIsNoise ==
    ChunkFormatted =>
        /\ \A d \in ChunkDocs :
               /\ d \in NoiseListed <=> IsPrimary(d, -1)
               /\ d \in MultiClusterListed <=>
                      EntryOf(d).cluster_id = -1 /\ ~IsPrimary(d, -1)
        /\ NoiseListed \cap MultiClusterListed = {}
        /\ Len(report.noise.documentIds) = Cardinality(NoiseListed)
        /\ Len(report.multiCluster.documentIds) =
               Cardinality(MultiClusterListed)

\* a report with a document under noise that has a chunk with a label other
\* than -1, and a document under multiCluster
C15_Witness ==
    /\ ChunkFormatted
    /\ \E d \in NoiseListed : ChunksWith(d, -1) # ChunksOf(d)
    /\ MultiClusterListed # {}

\* doc_embeddings has been filled
Aggregated == doc_embeddings # <<>>

\* the chunks of a document among the chunks aggregated
AggChunksOf(d) == {i \in 1 .. Len(chunks) : chunks[i].documentId = d}

AggDocs == {chunks[i].documentId : i \in 1 .. Len(chunks)}

\* the sum of component i of the vectors of a set of chunks
RECURSIVE ComponentSum(_, _)
ComponentSum(cs, i) ==
    IF cs = {} THEN 0
    ELSE LET c == CHOOSE x \in cs : TRUE
         IN  chunks[c].vector[i] + ComponentSum(cs \ {c}, i)

RECURSIVE SquaresTotal(_, _)
SquaresTotal(cs, dims) ==
    IF dims = {} THEN 0
    ELSE LET i == CHOOSE x \in dims : TRUE
         IN  ComponentSum(cs, i) * ComponentSum(cs, i)
             + SquaresTotal(cs, dims \ {i})

EmbeddingOf(d) ==
    doc_embeddings[CHOOSE k \in 1 .. Len(doc_embeddings) :
                       doc_embeddings[k].doc_id = d].embedding

Sign(x) == IF x > 0 THEN 1 ELSE IF x < 0 THEN -1 ELSE 0

\* C20: aggregate_embeddings gives every document one embedding, of the
\* dimension of its chunk vectors.  With s the sum of the vectors of its k
\* chunks (the mean is s / k), when s is not the zero vector each component
\* of the embedding, times the norm of the mean, is the component of the
\* mean; and when s is the zero vector the embedding is the mean itself,
\* undivided.
C20_MeanThenNormalise ==
    Aggregated =>
        /\ {doc_embeddings[k].doc_id : k \in 1 .. Len(doc_embeddings)}
               = AggDocs
        /\ Len(doc_embeddings) = Cardinality(AggDocs)
        /\ \A d \in AggDocs :
               LET e == EmbeddingOf(d)
                   cs == AggChunksOf(d)
                   k == Cardinality(cs)
                   dims == 1 .. Len(chunks[1].vector)
                   q == SquaresTotal(cs, dims)
               IN  /\ DOMAIN e.num = dims
                   /\ e.den > 0
                   /\ IF q > 0
                      THEN /\ e.root > 0
                           /\ \A i \in dims :
                                  /\ Sign(e.num[i]) = Sign(ComponentSum(cs, i))
                                  /\ e.num[i] * e.num[i] * q * k * k =
                                         ComponentSum(cs, i)
                                         * ComponentSum(cs, i)
                                         * e.den * e.den * e.root * k * k
                      ELSE /\ e.root = 1
                           /\ e.den = k
                           /\ \A i \in dims : e.num[i] = 0

\* a document with two chunks whose mean is not the zero vector and has a
\* norm other than 1, next to a document whose mean is the zero vector
C20_Witness ==
    /\ Aggregated
    /\ \E d \in AggDocs :
           /\ Cardinality(AggChunksOf(d)) = 2
           /\ EmbeddingOf(d).root > 1
    /\ \E d \in AggDocs :
           /\ EmbeddingOf(d).root = 1
           /\ \A i \in DOMAIN EmbeddingOf(d).num : EmbeddingOf(d).num[i] = 0
           /\ \E c \in AggChunksOf(d) : \E i \in DOMAIN chunks[c].vector :
                  chunks[c].vector[i] # 0

\* fetch_chunks_for_documents has returned
Fetched == fetch_pc = "returned"

\* the number of batches of the call
NumBatches == (Len(document_ids) + batch_size - 1) \div batch_size

\* an object that carries a vector: a list, or a dict with a value
HasVector(item) ==
    \/ item.vector.kind = "list"
    \/ item.vector.kind = "dict" /\ item.vector.entries # <<>>

\* the objects with a vector of the batches whose query returned, in order
RECURSIVE ObjectsWithVector(_)
ObjectsWithVector(qs) ==
    IF qs = <<>> THEN <<>>
    ELSE (IF Head(qs).raised THEN <<>>
          ELSE SelectSeq(Head(qs).objects, HasVector))
         \o ObjectsWithVector(Tail(qs))

\* C17 as stated: whichever queries raise, fetch_chunks_for_documents
\* returns after one query for each batch, and what it returns is, in order,
\* one chunk for every object with a vector of every batch whose query did
\* not raise.
C17_Original ==
    Fetched =>
        /\ Len(queries) = NumBatches
        /\ Len(chunks) = Len(ObjectsWithVector(queries))
        /\ \A k \in 1 .. Len(chunks) :
               /\ chunks[k].documentId =
                      ObjectsWithVector(queries)[k].documentId
               /\ chunks[k].vector \in
                      {e.value : e \in Range(ObjectsWithVector(queries)[k]
                                                 .vector.entries)}

\* a script runs from the command line
CliRun == script # "none"

ValidationMessages ==
    {"Error: min_cluster_size must be at least 2",
     "Error: min_samples must be at least 1",
     "Error: majority_threshold must be between 0 and 1"}

\* the parameters the claim calls invalid
InvalidParameters ==
    \/ args.min_cluster_size < 2
    \/ args.min_samples < 1
    \/ script = "chunks"
       /\ (args.majority_threshold <= 0 \/ args.majority_threshold > 100)

\* C16: a run with min_cluster_size < 2, min_samples < 1 or, in the
\* chunk-first script, a majority threshold outside (0, 1] never reaches a
\* store, and once past the validation it has ended with exit code 1, a
\* diagnostic of the validation and no report; a run with valid parameters,
\* the threshold 1 among them, is not ended by the validation.
C16_InvalidParametersRejectedFirst ==
    CliRun =>
        /\ InvalidParameters =>
               /\ io_log = <<>>
               /\ main_pc \in {"validate", "exited"}
               /\ main_pc = "exited" =>
                      /\ exit_code = 1
                      /\ fatal \in ValidationMessages
                      /\ json_output = NoResult
        /\ ~InvalidParameters =>
               /\ fatal \notin ValidationMessages
               /\ main_pc \notin {"validate", "connect"} => io_log # <<>>

\* the chunk-first script has rejected the threshold 0, the other
\* parameters being valid
C16_Witness ==
    /\ script = "chunks"
    /\ args.majority_threshold = 0
    /\ args.min_cluster_size >= 2
    /\ args.min_samples >= 1
    /\ main_pc = "exited"
    /\ exit_code = 1

\* the documents the run obtained: those of the chunks fetched
DocsObtained == Cardinality({chunks[i].documentId : i \in 1 .. Len(chunks)})

LevelsOf(c) == {e.lambda_val : e \in {x \in Edges : x.child = c}}

SetMax(S) == CHOOSE x \in S : \A y \in S : y <= x

\* C21: after a successful extraction, the lambda_val of every node of the
\* returned tree is the highest merge level among the rows, of any
\* child_size, in which the node is the child, and 0 for a node that is the
\* child of no row.
C21_LambdaIsMaxOverChildRows ==
    Succeeded =>
        \A nd \in OutputNodes :
            nd.lambda_val = IF IsChild(nd.cluster_id)
                            THEN SetMax(LevelsOf(nd.cluster_id))
                            ELSE 0

\* a node of the returned tree is the child of two rows, the later one of
\* child_size 1 and of a lower level than the earlier, next to a root that
\* is the child of no row
C21_Witness ==
    /\ Succeeded
    /\ \E nd \in OutputNodes :
           \E i, j \in 1 .. Len(tree_array) :
               /\ i < j
               /\ tree_array[i].child = nd.cluster_id
               /\ tree_array[j].child = nd.cluster_id
               /\ tree_array[j].child_size = 1
               /\ tree_array[j].lambda_val < tree_array[i].lambda_val
    /\ \E r \in Roots : ~IsChild(r.cluster_id) /\ r.lambda_val = 0

\* main() is at or past the tree viewer step
AtViewerStep ==
    main_pc \in {"temp_file", "viewer_script", "viewer_run", "finally",
                 "output", "exited"}

\* C22: in a run of main() with --tree-viewer, extract_tree_structure is
\* called once and never twice: by format_results with --include-tree (the
\* call is made when main() reaches result['userId']), by main() itself
\* without it (no call is made until then); from the writing of the
\* temporary file on, the call has been made and the report has a tree
\* field; and the report is written only after the viewer script has
\* returned the code 0.
C22_TreeOnceBeforeViewerThenReport ==
    (main_pc # "none" /\ args.tree_viewer) =>
        /\ extract_calls <= 1
        /\ main_pc = "step6" =>
               extract_calls = IF args.include_tree THEN 1 ELSE 0
        /\ AtViewerStep =>
               /\ extract_calls = 1
               /\ pc = "returned"
               /\ "tree" \in DOMAIN report
               /\ report.tree = result
        /\ json_output # NoResult =>
               /\ result_code = "ok"
               /\ fatal = "none"
               /\ json_output = report

\* a run with --tree-viewer and without --include-tree has written its
\* report, tree included, after the viewer script returned 0
C22_Witness ==
    /\ main_pc = "exited"
    /\ args.tree_viewer
    /\ ~args.include_tree
    /\ exit_code = 0
    /\ result_code = "ok"
    /\ "tree" \in DOMAIN json_output
    /\ extract_calls = 1

\* the tree viewer step of main() is over
ViewerStepOver == main_pc \in {"output", "exited"}

\* C29 as stated: when the tree viewer step is over, a temporary file that
\* was created has been deleted.
C29_Original ==
    (ViewerStepOver /\ temp_file # "none") => temp_file = "deleted"

\* C23 as stated: in the returned tree, the final_clusters of every child
\* node are among the final_clusters of its parent node.
C23_Original ==
    Succeeded =>
        \A nd \in OutputNodes :
            \A ch \in ChildNodes(nd) :
                Range(ch.final_clusters) \subseteq Range(nd.final_clusters)

\* C23 amended: in the returned tree, the final_clusters of every child of
\* an internal node (id >= num_points) are among the final_clusters of that
\* node; a point (id < num_points) that is a node of the tree has no
\* final_clusters, whatever its children have.
C23_MonotoneUnderInternalNodes ==
    Succeeded =>
        \A nd \in OutputNodes :
            IF Internal(nd.cluster_id)
            THEN \A ch \in ChildNodes(nd) :
                     Range(ch.final_clusters) \subseteq Range(nd.final_clusters)
            ELSE nd.final_clusters = <<>>

\* an internal node has two final clusters and a child that has one of them
C23_Witness ==
    /\ Succeeded
    /\ \E nd \in OutputNodes :
           /\ Internal(nd.cluster_id)
           /\ \E ch \in ChildNodes(nd) :
                  /\ ch.final_clusters # <<>>
                  /\ Range(ch.final_clusters) # Range(nd.final_clusters)

\* the labels the exclusive_clusters of a node and of its descendants hold
ExclusiveBelow(nd) == UNION {Range(x.exclusive_clusters) : x \in Subtree(nd)}

\* a point with children is at or below the node
PointParentBelow(nd) ==
    \E x \in Subtree(nd) : ~Internal(x.cluster_id) /\ x.children # <<>>

\* C24 as stated: in the returned tree, the final_clusters of every node are
\* the union of the exclusive_clusters of the node and of its descendants.
C24_Original ==
    Succeeded =>
        \A nd \in OutputNodes : Range(nd.final_clusters) = ExclusiveBelow(nd)

\* C24 amended: in the returned tree, every label of a node's final_clusters
\* is in the exclusive_clusters of the node or of one of its descendants;
\* the two sets are equal for every node at or below which no point
\* (id < num_points) has children.
C24_FinalClustersResolvedBelow ==
    Succeeded =>
        \A nd \in OutputNodes :
            /\ Range(nd.final_clusters) \subseteq ExclusiveBelow(nd)
            /\ ~PointParentBelow(nd) =>
                   Range(nd.final_clusters) = ExclusiveBelow(nd)

\* a node keeps one label for itself and owes another to a child
C24_Witness ==
    /\ Succeeded
    /\ \E nd \in OutputNodes :
           /\ ~PointParentBelow(nd)
           /\ nd.exclusive_clusters # <<>>
           /\ \E ch \in ChildNodes(nd) : ch.exclusive_clusters # <<>>
           /\ Range(nd.exclusive_clusters) # Range(nd.final_clusters)

\* the nodes below a set of nodes, through the rows of any parent
RECURSIVE Closure(_)
Closure(S) ==
    LET T == S \cup {e.child : e \in {x \in Edges : x.parent \in S}}
    IN  IF T = S THEN S ELSE Closure(T)

Descendants(n) == Closure({e.child : e \in {x \in Edges : x.parent = n}})

\* each node is the child of at most one row, and no node is below itself
ProperForest ==
    /\ \A i, j \in 1 .. Len(tree_array) :
           tree_array[i].child = tree_array[j].child => i = j
    /\ \A n \in NodeIds : n \notin Descendants(n)

\* every row whose child is internal has child_size > 1, and there is one
MergesOnlyToInternal ==
    /\ \A e \in Edges : Internal(e.child) => e.child_size > 1
    /\ \E e \in Edges : Internal(e.child)

\* the number of nodes of a subtree, and of a list of subtrees, that have a
\* given id
RECURSIVE Occurrences(_, _)
RECURSIVE OccurrencesIn(_, _)
Occurrences(nd, c) ==
    (IF nd.cluster_id = c THEN 1 ELSE 0) + OccurrencesIn(nd.children, c)

OccurrencesIn(nodes, c) ==
    IF nodes = <<>> THEN 0
    ELSE Occurrences(Head(nodes), c) + OccurrencesIn(Tail(nodes), c)

EveryInternalNodeOnce ==
    /\ Succeeded
    /\ \A n \in InternalReferenced : OccurrencesIn(result.tree, n) = 1

RECURSIVE InternalClosure(_)
InternalClosure(S) ==
    LET T == S \cup {e.child : e \in {x \in Edges : x.parent \in S
                                         /\ Internal(x.parent)
                                         /\ Internal(x.child)}}
    IN  IF T = S THEN S ELSE InternalClosure(T)

\* the rows between internal nodes form a cycle
InternalCycle ==
    \E n \in NodeIds :
        /\ Internal(n)
        /\ n \in InternalClosure({e.child : e \in {x \in Edges :
                                      x.parent = n /\ Internal(x.child)}})

TopLabels(d) ==
    {c \in ChunkLabels :
        /\ ChunksWith(d, c) # {}
        /\ \A o \in ChunkLabels :
               Cardinality(ChunksWith(d, o)) <= Cardinality(ChunksWith(d, c))}

\* the labels of the chunks of a document, the chunks taken in another order
Reordered(order) == [k \in 1 .. Len(order) |-> chunk_cluster_labels[order[k]]]

\* C27: the primary_cluster of every document is one of the labels with the
\* highest chunk count of the document, and among them the one whose first
\* chunk comes first; when one label alone has the highest count, the
\* cluster_id and the primary_cluster are the same for every order of the
\* chunks of the document.
C27_FirstTiedLabelIsPrimary ==
    Mapped =>
        \A d \in ChunkDocs :
            LET primary == EntryOf(d).primary_cluster
            IN  /\ primary \in TopLabels(d)
                /\ \A o \in TopLabels(d) \ {primary} :
                       SetMin(ChunksWith(d, primary)) < SetMin(ChunksWith(d, o))
                /\ Cardinality(TopLabels(d)) = 1 =>
                       \A order \in Perms(ChunksOf(d)) :
                           LET entry == DocCluster(d, Reordered(order),
                                                   majority_threshold)
                           IN  /\ entry.cluster_id = EntryOf(d).cluster_id
                               /\ entry.primary_cluster = primary

\* ties in which the primary label is not the lowest of the tied labels,
\* and not the highest
C27_Witness ==
    /\ Mapped
    /\ \E d \in ChunkDocs :
           \E o \in TopLabels(d) : o > EntryOf(d).primary_cluster
    /\ \E d \in ChunkDocs :
           \E o \in TopLabels(d) : o < EntryOf(d).primary_cluster

\* the number of places of a list that hold a document
PlacesIn(ids, d) == Cardinality({k \in 1 .. Len(ids) : ids[k] = d})

\* the number of places of the lists of all clusters that hold a document
RECURSIVE PlacesInClusters(_, _)
PlacesInClusters(keys, d) ==
    IF keys = {} THEN 0
    ELSE LET c == CHOOSE x \in keys : TRUE
         IN  PlacesIn(report.clusters[c].documentIds, d)
             + PlacesInClusters(keys \ {c}, d)

RECURSIVE SumOfSizes(_)
SumOfSizes(keys) ==
    IF keys = {} THEN 0
    ELSE LET c == CHOOSE x \in keys : TRUE
         IN  report.clusters[c].size + SumOfSizes(keys \ {c})

\* C28: in the report of the chunk-first format_results every document is
\* at exactly one place of the lists of clusters, noise and multiCluster
\* together; totalDocuments is the number of documents and the sum of the
\* cluster sizes, noiseCount and multiClusterCount; and -1 is no key of
\* clusters.
C28_ChunkReportPartitionsDocuments ==
    ChunkFormatted =>
        /\ \A d \in ChunkDocs :
               PlacesInClusters(DOMAIN report.clusters, d)
               + PlacesIn(report.noise.documentIds, d)
               + PlacesIn(report.multiCluster.documentIds, d) = 1
        /\ report.totalDocuments = Cardinality(ChunkDocs)
        /\ report.totalDocuments =
               SumOfSizes(DOMAIN report.clusters) + report.noiseCount
               + report.multiClusterCount
        /\ \A c \in DOMAIN report.clusters :
               report.clusters[c].size = Len(report.clusters[c].documentIds)
        /\ report.noiseCount = Len(report.noise.documentIds)
        /\ report.multiClusterCount = Len(report.multiCluster.documentIds)
        /\ -1 \notin DOMAIN report.clusters

\* a report with a document in a cluster and one without a cluster whose
\* chunks are all noise
C28_Witness ==
    /\ ChunkFormatted
    /\ DOMAIN report.clusters # {}
    /\ report.noiseCount = 1
    /\ report.totalDocuments = 2

\* the fields format_results gives the report whatever include_tree is
BaseFields ==
    {"totalDocuments", "totalClusters", "noiseCount", "clusters", "noise",
     "parameters"}

\* C30: from the grouping of format_results on, the fields totalDocuments,
\* totalClusters, noiseCount, clusters, noise and parameters of the report
\* are those the labels and the parameters give, whether include_tree is
\* false, or true with an extraction that succeeds or fails; when
\* format_results has returned the report has a tree field exactly if
\* include_tree is set, and apart from the user id nothing else.
C30_TreeOnlyAddsTreeField ==
    main_pc \notin {"none", "format_results"} =>
        /\ \A f \in BaseFields :
               f \in DOMAIN report /\ report[f] = BaseReport[f]
        /\ DOMAIN report \ BaseFields \subseteq {"tree", "userId"}
        /\ main_pc = "step6" =>
               ("tree" \in DOMAIN report <=> args.include_tree)
        /\ "tree" \in DOMAIN report => report.tree = result

\* format_results has returned with the tree of a failed extraction next to
\* a cluster and a noise document
C30_Witness ==
    /\ main_pc = "step6"
    /\ args.include_tree
    /\ "error" \in DOMAIN report.tree
    /\ report.totalClusters = 1
    /\ report.noiseCount = 1

====
